---- MODULE Spec2Model ----
(***************************************************************************)
(* State-machine model of the SDL_ttf font resource of OpenEngine          *)
(* (extensions-SDLFont): SDLFontPlugin, SDLFont and SDLFont::SDLFontTexture.*)
(*                                                                         *)
(* Two revisions of SDLFont.cpp are in the repository and both are         *)
(* modelled; the variable revision selects one for a whole behaviour:      *)
(*   "A"  src/Resources/SDLFont.cpp  (SetSize/SetStyle/SetColor,           *)
(*        background colour, SetColor fires the change event)              *)
(*   "B"  src/unnamed/part_000       (SetPointSize/SetFontStyle/           *)
(*        SetFontColor, no background colour, colour clamped from above,   *)
(*        SetFontColor fires nothing)                                      *)
(* Actions carry the names of revision A.                                  *)
(*                                                                         *)
(* Encodings.                                                              *)
(*  - A float colour channel x is the integer 2*x (halves), so 1.0 is 2,   *)
(*    0.5 is 1, 2.0 is 4 and -1.0 is -2.                                   *)
(*  - A pixel buffer (unsigned char* data) is the sequence of its bytes in *)
(*    memory order; NULL is the empty sequence.  An allocated byte that    *)
(*    was never written is Indeterminate.                                  *)
(*  - A 32-bit pixel value is the tuple of its four bytes, most            *)
(*    significant first.                                                   *)
(*  - A native font handle (TTF_Font* ) is a positive integer, NULL is 0.   *)
(*  - The rasterizer is external: its metrics and coverage are a fixed     *)
(*    function of text, point size and style, and each of the failures the *)
(*    code tests for is an outcome the caller of Render cannot exclude.    *)
(***************************************************************************)
EXTENDS Integers, Sequences, FiniteSets, TLC

\* ---------------------------------------------------------------- bounds
MaxTex == 2          \* textures ever created

\* ---------------------------------------------------------------- inputs
FontIds == {1, 2}
TexIds == 1 .. MaxTex
Handles == 1 .. Cardinality(FontIds) + 1     \* one more than the fonts can hold
NULL == 0

Revisions == {"A", "B"}
Files == {"ok.ttf", "missing.ttf"}
ValidFiles == {"ok.ttf"}
PtSizes == {0, 12, 24}
FONT_STYLE_NORMAL == 0
FONT_STYLE_BOLD == 1
Styles == {FONT_STYLE_NORMAL, FONT_STYLE_BOLD}
White == <<2, 2, 2>>
FontColors == {<<4, -2, 1>>}
NoBackground == <<0, 0, 0, 0>>
Backgrounds == {<<2, 0, 0, 1>>}
Texts == {<<>>, <<"a">>}
FixedDims == {<<2, 1>>}
Outcomes == {"ok", "nosurf", "depth8", "convert", "blit"}

\* What a behaviour explores.  With one texture every input and every outcome
\* of SDL is tried; with MaxTex textures of one font, and with two fonts, the
\* inputs are cut down so that the states stay few.  buffers is the number of
\* pixel buffers the heap has room for: an operation that needs more is not
\* explored.
Scopes ==
    {[fonts |-> {1}, textures |-> 1, files |-> Files, ptsizes |-> PtSizes,
      styles |-> Styles, colors |-> FontColors, backgrounds |-> Backgrounds,
      texts |-> Texts, dims |-> FixedDims, outcomes |-> Outcomes,
      buffers |-> 3],
     [fonts |-> {1}, textures |-> MaxTex, files |-> Files, ptsizes |-> {0, 12},
      styles |-> Styles, colors |-> {}, backgrounds |-> {},
      texts |-> Texts, dims |-> {}, outcomes |-> {"ok", "nosurf"},
      buffers |-> MaxTex + 2],
     [fonts |-> FontIds, textures |-> MaxTex, files |-> ValidFiles, ptsizes |-> {},
      styles |-> {FONT_STYLE_BOLD}, colors |-> {}, backgrounds |-> {},
      texts |-> {<<>>}, dims |-> {}, outcomes |-> {"ok"},
      buffers |-> MaxTex]}

\* A value the program never set (an allocated byte, an unset field)
Indeterminate == -1

VARIABLES
    scope,       \* the inputs this behaviour draws from
    revision,    \* which SDLFont.cpp is built
    bigEndian,   \* SDL_BYTEORDER == SDL_BIG_ENDIAN in this build
    fonts,       \* SDLFont objects
    texs,        \* SDLFontTexture objects
    ttf,         \* SDL_ttf: its native fonts, and whether it was misused
    op,          \* the last operation called
    exc,         \* the exception it raised, or "none"
    trace,       \* what it did, in order
    heap         \* the number of pixel buffers allocated and not freed

vars == <<scope, revision, bigEndian, fonts, texs, ttf, op, exc, trace, heap>>

\* ------------------------------------------------------------- arithmetic
Min(a, b) == IF a < b THEN a ELSE b

\* (Uint8) of an int
Uint8(n) == n % 256

\* int(roundf(x * 255)) for the float x = h/2: halves round away from zero
RoundF255(h) ==
    IF h >= 0 THEN (255 * h + 1) \div 2 ELSE -((255 * (-h) + 1) \div 2)

\* fmin(1.0, x) for the float x = h/2
\* Mutant of FMin1: no clamp.
FMin1_Identity(h) == h

FMin1(h) == Min(2, h)

Reverse(s) == [i \in 1 .. Len(s) |-> s[Len(s) + 1 - i]]

\* The bytes of a 32-bit value as they lie in memory on this host.
Store32(word, be) == IF be THEN word ELSE Reverse(word)

\* ------------------------------------------------------------ SDL_ttf, SDL
\* TTF_OpenFont returns a font for a readable TrueType file and a usable size.
OpenSucceeds(filename, ptsize) == filename \in ValidFiles /\ ptsize > 0

\* The native font TTF_OpenFont hands out next: storage that is not in use
\* (NULL when the model has no more).
FreshHandle(tf) ==
    IF \E h \in Handles : ~tf.open[h]
    THEN CHOOSE h \in Handles : ~tf.open[h] /\ \A g \in Handles : g < h => tf.open[g]
    ELSE NULL

\* Glyph coverage (the alpha TTF_RenderText_Blended gives a pixel of a glyph).
Coverage(ch, style) ==
    IF style = FONT_STYLE_BOLD THEN 255 ELSE IF ch = "a" THEN 128 ELSE 64

\* TTF_RenderText_Blended: a surface as wide as the text and as high as the
\* font, one glyph cell per character, every pixel in the given colour.
RenderText_Blended(opensize, style, text, sdlcolr) ==
    LET sc == opensize \div 12
        w == Len(text) * sc
    IN  [w |-> w, h |-> sc,
         px |-> [i \in 1 .. w * sc |->
                    <<sdlcolr[1], sdlcolr[2], sdlcolr[3],
                      Coverage(text[(((i - 1) % w) \div sc) + 1], style)>>]]

\* The 32-bit value of a colour under the masks Render selects for the host.
MapRGBA(p, be) ==
    IF be THEN <<p[1], p[2], p[3], p[4]>>     \* R FF000000 .. A 000000FF
    ELSE <<p[4], p[3], p[2], p[1]>>           \* R 000000FF .. A FF000000

\* The pixel read back from four bytes of memory under the same masks.
GetRGBA(bytes, be) ==
    LET word == Store32(bytes, be)
    IN  IF be THEN <<word[1], word[2], word[3], word[4]>>
        ELSE <<word[4], word[3], word[2], word[1]>>

\* SDL_ConvertSurface(surf, &format): the pixels of surf, row by row, in the
\* 32-bit format whose masks Render set up.
ConvertSurface(surf, be) ==
    [k \in 1 .. 4 * surf.w * surf.h |->
        Store32(MapRGBA(surf.px[((k - 1) \div 4) + 1], be), be)[((k - 1) % 4) + 1]]

\* SDL_FillRect(dest, NULL, c) on a surface that wraps data: every pixel of
\* the surface gets the low depth/8 bytes of c.
FillRect(data, width, height, depth, c, be) ==
    LET bpp == depth \div 8
        low == Store32(SubSeq(c, 5 - bpp, 4), be)
    IN  [k \in 1 .. Len(data) |->
            IF k <= bpp * width * height THEN low[((k - 1) % bpp) + 1] ELSE data[k]]

\* memset(data, 0, n)
Memset0(data, n) == [k \in 1 .. Len(data) |-> IF k <= n THEN 0 ELSE data[k]]

\* SDL's ALPHA_BLEND of one channel
AlphaBlend(s, d, a) == d + (((s - d) * a) \div 256)

\* SDL_BlitSurface(converted, clip, dest, clip): the part of the source that
\* fits is copied (blend = FALSE: SDL_SetAlpha(converted, 0, 0)) or blended
\* over the destination, whose alpha it keeps (blend = TRUE: SDL_SRCALPHA).
\* A destination that is not 32 bits deep has a palette of black entries, so
\* every pixel blitted to it becomes index 0.
BlitSurface(surf, data, width, height, depth, blend, be) ==
    LET bpp == depth \div 8
    IN  [k \in 1 .. Len(data) |->
            LET pix == (k - 1) \div bpp
                x == pix % width
                y == pix \div width
                j == ((k - 1) % bpp) + 1
            IN  IF y < height /\ x < surf.w /\ y < surf.h
                THEN IF depth # 32 THEN 0
                     ELSE LET s == surf.px[y * surf.w + x + 1]
                              d == GetRGBA(SubSeq(data, 4 * pix + 1, 4 * pix + 4), be)
                              out == IF blend
                                     THEN <<AlphaBlend(s[1], d[1], s[4]),
                                            AlphaBlend(s[2], d[2], s[4]),
                                            AlphaBlend(s[3], d[3], s[4]), d[4]>>
                                     ELSE s
                          IN  Store32(MapRGBA(out, be), be)[j]
                ELSE data[k]]

\* ------------------------------------------------------------ SDLFont::Render
\* Uint32 c of the background fill: r << 24 | g << 16 | b << 8 | a
BackgroundWord(bgcolr) ==
    <<Uint8(RoundF255(bgcolr[1])), Uint8(RoundF255(bgcolr[2])),
      Uint8(RoundF255(bgcolr[3])), Uint8(RoundF255(bgcolr[4]))>>

Thrown(tex, e, tr) == [tex |-> tex, exc |-> e, trace |-> tr]
Returned(tex, tr) == [tex |-> tex, exc |-> "none", trace |-> tr]

\* Mutant of EmptyAutoSized: the depth is left as it was.
EmptyAutoSized_KeepsDepth(tex) ==
    [tex EXCEPT !.data = <<0, 0, 0, 0>>, !.width = 1, !.height = 1]

\* Render of empty text on an auto-sized texture: one pixel, all zero.
EmptyAutoSized(tex) ==
    [tex EXCEPT !.data = <<0, 0, 0, 0>>, !.width = 1, !.height = 1, !.depth = 32]

\* Mutant of RenderLoadedA: no branch for fixed-size textures, every texture
\* gets a new buffer of the size of the rendered surface.
RenderLoadedA_Resizes(t, tex, fnt, opensize, o, be) ==
    LET surf == RenderText_Blended(opensize, fnt.style, tex.text, fnt.sdlcolr)
    IN  IF tex.text = <<>>
        THEN Returned(IF tex.fixed_size THEN tex ELSE EmptyAutoSized(tex),
                      <<<<"TextureChanged", t>>>>)
        ELSE IF o # "ok" THEN Thrown(tex, "ResourceException", <<>>)
        ELSE Returned([tex EXCEPT !.width = surf.w, !.height = surf.h, !.depth = 32,
                                  !.data = ConvertSurface(surf, be)],
                      <<<<"TextureChanged", t>>>>)

\* Revision A (src/Resources/SDLFont.cpp) past the test of the font.  t is the
\* texture's id, tex its fields, fnt the font's fields, opensize the size its
\* native font was opened at, o what SDL does in this call.
RenderLoadedA(t, tex, fnt, opensize, o, be) ==
    LET filled == IF tex.fixed_size
                  THEN [tex EXCEPT !.data = FillRect(tex.data, tex.width, tex.height,
                                                     tex.depth, BackgroundWord(tex.bgcolr), be)]
                  ELSE tex
        surf == RenderText_Blended(opensize, fnt.style, tex.text, fnt.sdlcolr)
        bits == IF o = "depth8" THEN 8 ELSE 32
        deep == [filled EXCEPT !.depth = bits]
    IN  IF tex.text = <<>> THEN
            IF ~tex.fixed_size
            THEN Returned(EmptyAutoSized(tex), <<<<"TextureChanged", t>>>>)
            ELSE Returned(filled, <<<<"TextureChanged", t>>>>)
        ELSE IF o = "nosurf" THEN Thrown(filled, "ResourceException", <<>>)
        ELSE IF bits # 32 THEN Thrown(deep, "ResourceException", <<>>)
        ELSE IF o = "convert" THEN Thrown(deep, "ResourceException", <<>>)
        ELSE IF tex.fixed_size THEN
            IF o = "blit" THEN Thrown(deep, "ResourceException", <<>>)
            ELSE Returned([deep EXCEPT !.data =
                              BlitSurface(surf, filled.data, tex.width, tex.height,
                                          tex.depth, tex.bgcolr[4] # 0, be)],
                          <<<<"TextureChanged", t>>>>)
        ELSE Returned([deep EXCEPT !.width = surf.w, !.height = surf.h,
                                   !.data = ConvertSurface(surf, be)],
                      <<<<"TextureChanged", t>>>>)

\* Revision B (src/unnamed/part_000) past the test of the font.
RenderLoadedB(t, tex, fnt, opensize, o, be) ==
    LET surf == RenderText_Blended(opensize, fnt.style, tex.text, fnt.sdlcolr)
        bits == IF o = "depth8" THEN 8 ELSE 32
        deep == [tex EXCEPT !.depth = bits]
        zeroed == [deep EXCEPT !.data =
                      Memset0(tex.data, (bits \div 8) * tex.width * tex.height)]
    IN  IF tex.text = <<>> THEN
            IF ~tex.fixed_size
            THEN Returned(EmptyAutoSized(tex), <<<<"TextureChanged", t>>>>)
            ELSE Returned([tex EXCEPT !.data =
                              Memset0(tex.data, (tex.depth \div 8) * tex.width * tex.height)],
                          <<<<"TextureChanged", t>>>>)
        ELSE IF o = "nosurf" THEN Thrown(tex, "ResourceException", <<>>)
        ELSE IF bits # 32 THEN Thrown(deep, "ResourceException", <<>>)
        ELSE IF o = "convert" THEN Thrown(deep, "ResourceException", <<>>)
        ELSE IF tex.fixed_size THEN
            IF o = "blit" THEN Thrown(zeroed, "ResourceException", <<>>)
            ELSE Returned([zeroed EXCEPT !.data =
                              BlitSurface(surf, zeroed.data, tex.width, tex.height,
                                          bits, FALSE, be)],
                          <<<<"TextureChanged", t>>>>)
        ELSE Returned([deep EXCEPT !.width = surf.w, !.height = surf.h,
                                   !.data = ConvertSurface(surf, be)],
                      <<<<"TextureChanged", t>>>>)

\* Mutant of RenderChecked: the font is not tested.
RenderChecked_NoTest(t, tex, fnt, opensize, o, be) ==
    IF revision = "A" THEN RenderLoadedA(t, tex, fnt, opensize, o, be)
    ELSE RenderLoadedB(t, tex, fnt, opensize, o, be)

\* SDLFont::Render of either revision: it throws if the font is not loaded.
RenderChecked(t, tex, fnt, opensize, o, be) ==
    IF fnt.font = NULL THEN Thrown(tex, "Exception", <<>>)
    ELSE IF revision = "A" THEN RenderLoadedA(t, tex, fnt, opensize, o, be)
    ELSE RenderLoadedB(t, tex, fnt, opensize, o, be)

\* The buffers a Render that ends with e allocates, less those it frees; tex
\* is the texture before the call.  For empty text an auto-sized texture's
\* buffer is deleted, if it has one, and a new one allocated; for other text
\* a new one is allocated and the pointer to the old one overwritten; the
\* buffer of a fixed-size texture is written in place.
Allocated(tex, e) ==
    IF e # "none" \/ tex.fixed_size THEN 0
    ELSE IF tex.text = <<>> THEN (IF tex.data = <<>> THEN 1 ELSE 0)
    ELSE 1

\* delete[] data in ~SDLFontTexture: the buffers it frees
Freed(tex) == IF tex.data = <<>> THEN 0 ELSE 1

\* SDLFont::Render(tex): the outcome for texture t in the state given by the
\* texture table tx; every call is recorded in the trace, grown is the change
\* in the number of buffers on the heap.
Render(t, tx, fnt, o) ==
    LET opensize == IF fnt.font = NULL THEN 0 ELSE ttf.ptsize[fnt.font]
        Done(r) == [tx |-> [tx EXCEPT ![t] = r.tex], exc |-> r.exc,
                    trace |-> <<<<"Render", t>>>> \o r.trace,
                    grown |-> Allocated(tx[t], r.exc)]
    IN  Done(RenderChecked(t, tx[t], fnt, opensize, o, bigEndian))

\* --------------------------------------------------------------- the state
\* An SDLFont as SDLFontPlugin::CreateResource returns it.
NewFont(filename) ==
    [state |-> "live", held |-> TRUE, font |-> NULL, filename |-> filename,
     ptsize |-> 12, style |-> FONT_STYLE_NORMAL, colr |-> White,
     sdlcolr |-> <<255, 255, 255>>, listeners |-> <<>>]

\* A font id the behaviour does not use.
NoFont ==
    [state |-> "none", held |-> FALSE, font |-> NULL, filename |-> "",
     ptsize |-> 0, style |-> FONT_STYLE_NORMAL, colr |-> White,
     sdlcolr |-> <<255, 255, 255>>, listeners |-> <<>>]

\* A texture id that no SDLFontTexture has used yet, and one whose texture
\* has been destroyed.
NoTexture ==
    [state |-> "none", font |-> 0, data |-> <<>>, width |-> 0, height |-> 0,
     depth |-> 0, fixed_size |-> FALSE, bgcolr |-> NoBackground, text |-> <<>>]
DeadTexture == [NoTexture EXCEPT !.state = "destroyed"]

\* SDLFontTexture(font): nothing but font, id, data and fixed_size is set.
NewTexture(f) ==
    [state |-> "live", font |-> f, data |-> <<>>, width |-> Indeterminate,
     height |-> Indeterminate, depth |-> Indeterminate, fixed_size |-> FALSE,
     bgcolr |-> NoBackground, text |-> <<>>]

\* SDLFontTexture(font, fixed_width, fixed_height): the buffer is allocated
\* and not written.
NewFixedTexture(f, w, h) ==
    [state |-> "live", font |-> f, data |-> [k \in 1 .. (32 \div 8) * w * h |-> Indeterminate],
     width |-> w, height |-> h, depth |-> 32, fixed_size |-> TRUE,
     bgcolr |-> NoBackground, text |-> <<>>]

\* SDL_ttf with no font open: open[h] says that h is an open native font,
\* ptsize[h] the size it was opened at; misused is set by TTF_CloseFont of
\* something that is not an open font.
NoneOpen ==
    [open |-> [h \in Handles |-> FALSE], ptsize |-> [h \in Handles |-> 0],
     misused |-> FALSE]

Init ==
    /\ scope \in Scopes
    /\ revision \in Revisions
    /\ bigEndian \in BOOLEAN
    /\ \E files \in [FontIds -> scope.files] :
          fonts = [f \in FontIds |-> IF f \in scope.fonts THEN NewFont(files[f]) ELSE NoFont]
    /\ texs = [t \in TexIds |-> NoTexture]
    /\ ttf = NoneOpen
    /\ op = [name |-> "CreateResource", f |-> 0, t |-> 0]
    /\ exc = "none"
    /\ trace = <<>>
    /\ heap = 0

Live(t) == texs[t].state = "live"
LiveOf(f, tx) == {t \in TexIds : tx[t].state = "live" /\ tx[t].font = f}

\* ------------------------------------------------------ Load, Unload, ~SDLFont
\* Mutant of Unload: the native font is closed and the pointer kept.
Unload_KeepsPointer(fnt, tf) ==
    IF fnt.font # NULL
    THEN [fnt |-> fnt,
          ttf |-> [tf EXCEPT !.open[fnt.font] = FALSE, !.ptsize[fnt.font] = 0,
                             !.misused = @ \/ ~tf.open[fnt.font]],
          trace |-> <<<<"TTF_CloseFont", fnt.font>>>>]
    ELSE [fnt |-> fnt, ttf |-> tf, trace |-> <<>>]

\* Mutant of Unload: the pointer is cleared and the native font not closed.
Unload_Leaks(fnt, tf) ==
    [fnt |-> [fnt EXCEPT !.font = NULL], ttf |-> tf, trace |-> <<>>]

\* SDLFont::Unload on the font fnt with SDL_ttf in state tf
Unload(fnt, tf) ==
    IF fnt.font # NULL
    THEN [fnt |-> [fnt EXCEPT !.font = NULL],
          ttf |-> [tf EXCEPT !.open[fnt.font] = FALSE, !.ptsize[fnt.font] = 0,
                             !.misused = @ \/ ~tf.open[fnt.font]],
          trace |-> <<<<"TTF_CloseFont", fnt.font>>>>]
    ELSE [fnt |-> fnt, ttf |-> tf, trace |-> <<>>]

\* Mutant of Load: no early return for a font that is loaded.
Load_NoGuard(fnt, tf) ==
    IF OpenSucceeds(fnt.filename, fnt.ptsize) /\ FreshHandle(tf) # NULL
    THEN LET h == FreshHandle(tf)
         IN  [fnt |-> [fnt EXCEPT !.font = h],
              ttf |-> [tf EXCEPT !.open[h] = TRUE, !.ptsize[h] = fnt.ptsize],
              exc |-> "none", trace |-> <<<<"TTF_OpenFont", h>>>>]
    ELSE [fnt |-> [fnt EXCEPT !.font = NULL], ttf |-> tf,
          exc |-> "ResourceException", trace |-> <<>>]

\* SDLFont::Load
Load(fnt, tf) ==
    IF fnt.font # NULL
    THEN [fnt |-> fnt, ttf |-> tf, exc |-> "none", trace |-> <<>>]
    ELSE IF OpenSucceeds(fnt.filename, fnt.ptsize)
    THEN LET h == FreshHandle(tf)
         IN  [fnt |-> [fnt EXCEPT !.font = h],
              ttf |-> [tf EXCEPT !.open[h] = TRUE, !.ptsize[h] = fnt.ptsize],
              exc |-> "none", trace |-> <<<<"TTF_OpenFont", h>>>>]
    ELSE [fnt |-> fnt, ttf |-> tf, exc |-> "ResourceException", trace |-> <<>>]

\* Load can run within the model's supply of native fonts.
CanLoad(fnt, tf) ==
    fnt.font # NULL \/ ~OpenSucceeds(fnt.filename, fnt.ptsize) \/ FreshHandle(tf) # NULL

\* SDLFont::~SDLFont
Destroy(fnt, tf) ==
    LET u == Unload(fnt, tf)
    IN  [fnt |-> [u.fnt EXCEPT !.state = "destroyed", !.held = FALSE, !.listeners = <<>>],
         ttf |-> u.ttf, trace |-> u.trace]

\* Mutant of Unreferenced: the textures' references to the font do not count.
Unreferenced_WithoutTextures(f, fnt, tx) == ~fnt.held

\* The last shared_ptr to font f is gone: nobody holds it and no texture
\* created from it is alive.
Unreferenced(f, fnt, tx) == ~fnt.held /\ LiveOf(f, tx) = {}

LoadFont(f) ==
    /\ fonts[f].held
    /\ CanLoad(fonts[f], ttf)
    /\ LET r == Load(fonts[f], ttf)
       IN  /\ fonts' = [fonts EXCEPT ![f] = r.fnt]
           /\ ttf' = r.ttf
           /\ exc' = r.exc
           /\ trace' = r.trace
    /\ op' = [name |-> "Load", f |-> f, t |-> 0]
    /\ UNCHANGED <<scope, revision, bigEndian, texs, heap>>

UnloadFont(f) ==
    /\ fonts[f].held
    /\ LET r == Unload(fonts[f], ttf)
       IN  /\ fonts' = [fonts EXCEPT ![f] = r.fnt]
           /\ ttf' = r.ttf
           /\ trace' = r.trace
    /\ exc' = "none"
    /\ op' = [name |-> "Unload", f |-> f, t |-> 0]
    /\ UNCHANGED <<scope, revision, bigEndian, texs, heap>>

\* The owner of the font drops its IFontResourcePtr.
ReleaseFont(f) ==
    /\ fonts[f].held
    /\ LET dropped == [fonts[f] EXCEPT !.held = FALSE]
           r == IF Unreferenced(f, dropped, texs) THEN Destroy(dropped, ttf)
                ELSE [fnt |-> dropped, ttf |-> ttf, trace |-> <<>>]
       IN  /\ fonts' = [fonts EXCEPT ![f] = r.fnt]
           /\ ttf' = r.ttf
           /\ trace' = r.trace
    /\ exc' = "none"
    /\ op' = [name |-> "ReleaseFont", f |-> f, t |-> 0]
    /\ UNCHANGED <<scope, revision, bigEndian, texs, heap>>

\* Mutant of SetSize: the size is stored and the native font kept.
SetSize_NoReload(f, ptsize) ==
    /\ fonts[f].held
    /\ ptsize \in scope.ptsizes
    /\ fonts' = [fonts EXCEPT ![f].ptsize = ptsize]
    /\ exc' = "none"
    /\ trace' = <<>>
    /\ op' = [name |-> "SetSize", f |-> f, t |-> 0]
    /\ UNCHANGED <<scope, revision, bigEndian, texs, ttf, heap>>

\* SDLFont::SetSize (SetPointSize in revision B)
SetSize(f, ptsize) ==
    /\ fonts[f].held
    /\ ptsize \in scope.ptsizes
    /\ LET sized == [fonts[f] EXCEPT !.ptsize = ptsize]
           u == Unload(sized, ttf)
       IN  /\ CanLoad(u.fnt, u.ttf)
           /\ LET r == IF sized.font # NULL THEN Load(u.fnt, u.ttf)
                       ELSE [fnt |-> sized, ttf |-> ttf, exc |-> "none", trace |-> <<>>]
              IN  /\ fonts' = [fonts EXCEPT ![f] = r.fnt]
                  /\ ttf' = r.ttf
                  /\ exc' = r.exc
                  /\ trace' = IF sized.font # NULL THEN u.trace \o r.trace ELSE <<>>
    /\ op' = [name |-> "SetSize", f |-> f, t |-> 0]
    /\ UNCHANGED <<scope, revision, bigEndian, texs, heap>>

\* ------------------------------------------------- change event, textures
\* Event::Notify of the font's changedEvent: SDLFontTexture::Handle of every
\* listener from position i on, in the order of the list; an exception thrown
\* by a handler leaves Notify at once.
RECURSIVE Notify(_, _, _, _, _)
Notify(i, listeners, tx, fnt, outs) ==
    IF i > Len(listeners) THEN [tx |-> tx, exc |-> "none", trace |-> <<>>, grown |-> 0]
    ELSE LET Join(r, rest) ==
                 [tx |-> rest.tx, exc |-> rest.exc, trace |-> r.trace \o rest.trace,
                  grown |-> r.grown + rest.grown]
             Handled(r) ==
                 IF r.exc # "none" THEN r
                 ELSE Join(r, Notify(i + 1, listeners, r.tx, fnt, outs))
         IN  Handled(Render(listeners[i], tx, fnt, outs[listeners[i]]))

\* What SDL does in the renders of one notification: Notify ends with the
\* first render that fails, so at most one of them does.
OutcomeChoices ==
    {[t \in TexIds |-> IF t = k THEN o ELSE "ok"] : k \in TexIds, o \in scope.outcomes}

\* Mutant of FireChangedEvent: the renders fire the font's event once more.
FireChangedEvent_Reentered(f, fnt, tx, outs) ==
    LET Again(n, m) ==
            [tx |-> m.tx, exc |-> m.exc,
             trace |-> <<<<"FontChanged", f>>>> \o n.trace
                          \o <<<<"FontChanged", f>>>> \o m.trace,
             grown |-> n.grown + m.grown]
        Fired(n) == Again(n, Notify(1, fnt.listeners, n.tx, fnt, outs))
    IN  Fired(Notify(1, fnt.listeners, tx, fnt, outs))

\* SDLFont::FireChangedEvent
FireChangedEvent(f, fnt, tx, outs) ==
    LET Fired(n) ==
            [tx |-> n.tx, exc |-> n.exc, trace |-> <<<<"FontChanged", f>>>> \o n.trace,
             grown |-> n.grown]
    IN  Fired(Notify(1, fnt.listeners, tx, fnt, outs))

\* SDLFont::SetStyle (SetFontStyle in revision B)
SetStyle(f, style) ==
    /\ fonts[f].held
    /\ style \in scope.styles
    /\ \E outs \in OutcomeChoices :
        LET styled == [fonts[f] EXCEPT !.style = style]
            Changed(r) ==
                /\ fonts' = [fonts EXCEPT ![f] = styled]
                /\ texs' = r.tx
                /\ exc' = r.exc
                /\ trace' = r.trace
                /\ heap' = heap + r.grown
                /\ heap' <= scope.buffers
        IN  Changed(FireChangedEvent(f, styled, texs, outs))
    /\ op' = [name |-> "SetStyle", f |-> f, t |-> 0]
    /\ UNCHANGED <<scope, revision, bigEndian, ttf>>

\* The SDL_Color of a float colour
PackColor(colr) ==
    <<Uint8(RoundF255(colr[1])), Uint8(RoundF255(colr[2])), Uint8(RoundF255(colr[3]))>>

\* SDLFont::SetColor (revision A) and SDLFont::SetFontColor (revision B)
SetColor(f, colr) ==
    /\ fonts[f].held
    /\ colr \in scope.colors
    /\ \E outs \in OutcomeChoices :
        LET stored == IF revision = "A" THEN colr
                      ELSE <<FMin1(colr[1]), FMin1(colr[2]), FMin1(colr[3])>>
            colored == [fonts[f] EXCEPT !.colr = stored, !.sdlcolr = PackColor(colr)]
            Changed(r) ==
                /\ fonts' = [fonts EXCEPT ![f] = colored]
                /\ texs' = r.tx
                /\ exc' = r.exc
                /\ trace' = r.trace
                /\ heap' = heap + r.grown
                /\ heap' <= scope.buffers
        IN  Changed(IF revision = "A" THEN FireChangedEvent(f, colored, texs, outs)
                    ELSE [tx |-> texs, exc |-> "none", trace |-> <<>>, grown |-> 0])
    /\ op' = [name |-> "SetColor", f |-> f, t |-> 0]
    /\ UNCHANGED <<scope, revision, bigEndian, ttf>>

\* The id the next SDLFontTexture gets (0 when the model has no more).
FreshTexture ==
    IF \E t \in 1 .. scope.textures : texs[t].state = "none"
    THEN CHOOSE t \in TexIds : texs[t].state = "none"
                               /\ \A u \in TexIds : u < t => texs[u].state # "none"
    ELSE 0

\* Mutant of Detach: the destructor leaves the listener attached.
Detach_Nothing(fnt, t) == fnt

\* Event::Attach and Event::Detach of the font's changedEvent
Attach(fnt, t) == [fnt EXCEPT !.listeners = Append(@, t)]
Detach(fnt, t) == [fnt EXCEPT !.listeners = SelectSeq(@, LAMBDA y : y # t)]

\* SDLFont::CreateFontTexture, both variants: made is the texture as its
\* constructor leaves it.  The constructor attaches it to the font, Render
\* draws it; if Render throws, the only shared_ptr to it dies with the call.
CreateTexture(f, made, o, name) ==
    /\ fonts[f].held
    /\ IF fonts[f].font = NULL
       THEN /\ exc' = "Exception"
            /\ trace' = <<>>
            /\ UNCHANGED <<fonts, texs, heap>>
       ELSE LET Constructed(t, attached, r) ==
                    /\ t # 0
                    /\ exc' = r.exc
                    /\ IF r.exc = "none"
                       THEN /\ fonts' = [fonts EXCEPT ![f] = attached]
                            /\ texs' = r.tx
                            /\ trace' = <<<<"Attach", t>>>> \o r.trace
                            /\ heap' = heap + Freed(made) + r.grown
                       ELSE /\ fonts' = fonts
                            /\ texs' = [texs EXCEPT ![t] = DeadTexture]
                            /\ trace' = <<<<"Attach", t>>>> \o r.trace \o <<<<"Detach", t>>>>
                            /\ heap' = heap + Freed(made) + r.grown - Freed(r.tx[t])
                    /\ heap' <= scope.buffers
                Drawn(t, attached) ==
                    Constructed(t, attached,
                                Render(t, [texs EXCEPT ![t] = made], attached, o))
                Attached(t) == Drawn(t, Attach(fonts[f], t))
            IN  Attached(FreshTexture)
    /\ op' = [name |-> name, f |-> f, t |-> IF fonts[f].font = NULL THEN 0 ELSE FreshTexture]
    /\ UNCHANGED <<scope, revision, bigEndian, ttf>>

CreateFontTexture(f) ==
    \E o \in scope.outcomes : CreateTexture(f, NewTexture(f), o, "CreateFontTexture")

CreateFontTextureFixed(f, fixed_width, fixed_height) ==
    \E o \in scope.outcomes :
        /\ <<fixed_width, fixed_height>> \in scope.dims
        /\ CreateTexture(f, NewFixedTexture(f, fixed_width, fixed_height), o,
                         "CreateFontTextureFixed")

\* SDLFontTexture::SetText
SetText(t, text) ==
    /\ Live(t)
    /\ text \in scope.texts
    /\ \E o \in scope.outcomes :
        LET Drawn(r) ==
                /\ texs' = r.tx
                /\ exc' = r.exc
                /\ trace' = r.trace
                /\ heap' = heap + r.grown
                /\ heap' <= scope.buffers
        IN  Drawn(Render(t, [texs EXCEPT ![t].text = text], fonts[texs[t].font], o))
    /\ op' = [name |-> "SetText", f |-> texs[t].font, t |-> t]
    /\ UNCHANGED <<scope, revision, bigEndian, fonts, ttf>>

\* SDLFontTexture::SetBackground (revision A only)
SetBackground(t, color) ==
    /\ revision = "A"
    /\ Live(t)
    /\ color \in scope.backgrounds
    /\ texs' = [texs EXCEPT ![t].bgcolr = color]
    /\ exc' = "none"
    /\ trace' = <<<<"TextureChanged", t>>>>
    /\ op' = [name |-> "SetBackground", f |-> texs[t].font, t |-> t]
    /\ UNCHANGED <<scope, revision, bigEndian, fonts, ttf, heap>>

\* The owner of the texture drops its pointer: SDLFontTexture::~SDLFontTexture
\* frees the buffer and detaches, then the texture's reference to its font
\* goes, and with the last reference the font.
ReleaseTexture(t) ==
    /\ Live(t)
    /\ LET f == texs[t].font
           tx == [texs EXCEPT ![t] = DeadTexture]
           detached == Detach(fonts[f], t)
           r == IF Unreferenced(f, detached, tx) THEN Destroy(detached, ttf)
                ELSE [fnt |-> detached, ttf |-> ttf, trace |-> <<>>]
       IN  /\ texs' = tx
           /\ fonts' = [fonts EXCEPT ![f] = r.fnt]
           /\ ttf' = r.ttf
           /\ trace' = <<<<"Detach", t>>>> \o r.trace
    /\ heap' = heap - Freed(texs[t])
    /\ exc' = "none"
    /\ op' = [name |-> "ReleaseTexture", f |-> texs[t].font, t |-> t]
    /\ UNCHANGED <<scope, revision, bigEndian>>

Next ==
    \/ \E f \in FontIds : LoadFont(f)
    \/ \E f \in FontIds : UnloadFont(f)
    \/ \E f \in FontIds : ReleaseFont(f)
    \/ \E f \in FontIds, p \in PtSizes : SetSize(f, p)
    \/ \E f \in FontIds, s \in Styles : SetStyle(f, s)
    \/ \E f \in FontIds, c \in FontColors : SetColor(f, c)
    \/ \E f \in FontIds : CreateFontTexture(f)
    \/ \E f \in FontIds, d \in FixedDims : CreateFontTextureFixed(f, d[1], d[2])
    \/ \E t \in TexIds, s \in Texts : SetText(t, s)
    \/ \E t \in TexIds, c \in Backgrounds : SetBackground(t, c)
    \/ \E t \in TexIds : ReleaseTexture(t)

Spec == Init /\ [][Next]_vars

\* ================================================================ claims
OpenHandles == {h \in Handles : ttf.open[h]}
Loaded(f) == \E h \in OpenHandles : fonts[f].font = h
Holders(h) == {f \in FontIds : fonts[f].font = h}
RenderEvents(tr) == SelectSeq(tr, LAMBDA e : e[1] = "Render")
\* The last operation rendered texture t and that render returned.
Rendered(t) ==
    \E i \in 1 .. Len(trace) - 1 :
        trace[i] = <<"Render", t>> /\ trace[i + 1] = <<"TextureChanged", t>>
\* The last operation ended in a render of texture t that threw.
FailedRender(tr, e, t) ==
    /\ e # "none"
    /\ Len(tr) > 0
    /\ tr[Len(tr)] = <<"Render", t>>

\* C1: the font's native handle is non-null exactly when the font is loaded,
\* that is when SDL_ttf has an open native font for it; a font that was just
\* constructed, unloaded or destroyed, or whose Load or SetSize failed to open
\* the file, has a null handle, and a font whose Load returned has one.
C1_HandleIffLoaded ==
    \A f \in FontIds :
        /\ fonts[f].font # NULL <=> Loaded(f)
        /\ fonts[f].state = "destroyed" => fonts[f].font = NULL
        /\ op.name = "CreateResource" => fonts[f].font = NULL /\ OpenHandles = {}
        /\ op.name = "Unload" /\ op.f = f => fonts[f].font = NULL
        /\ op.name \in {"Load", "SetSize"} /\ op.f = f /\ exc # "none"
              => fonts[f].font = NULL
        /\ op.name = "Load" /\ op.f = f /\ exc = "none" => fonts[f].font # NULL

\* C1 witness: SetSize on a loaded font could not reopen the file.
C1_Witness ==
    /\ op.name = "SetSize"
    /\ exc = "ResourceException"
    /\ trace = <<<<"TTF_CloseFont", 1>>>>
    /\ fonts[op.f].font = NULL

\* C2: a font whose file opens is loaded after every Load that has to open
\* it, whatever came before; every open native font is held by exactly one
\* live font (none is leaked, a font has at most one), TTF_CloseFont is only
\* ever called on an open font (none is closed twice), and once the fonts are
\* destroyed no native font is open.
C2_HandlesBalanced ==
    /\ ~ttf.misused
    /\ \A h \in OpenHandles :
          Cardinality(Holders(h)) = 1 /\ \A f \in Holders(h) : fonts[f].state = "live"
    /\ Cardinality(OpenHandles) <= Cardinality(FontIds)
    /\ (\A f \in FontIds : fonts[f].state # "live") => OpenHandles = {}
    /\ \A f \in FontIds :
          op.name = "Load" /\ op.f = f /\ OpenSucceeds(fonts[f].filename, fonts[f].ptsize)
              => exc = "none" /\ Loaded(f)

\* C2 witness: a loaded font was unloaded and loaded again (by SetSize), and
\* one native font is open as before.
C2_Witness ==
    /\ op.name = "SetSize"
    /\ exc = "none"
    /\ trace = <<<<"TTF_CloseFont", 1>>, <<"TTF_OpenFont", 1>>>>
    /\ Loaded(op.f)
    /\ Cardinality(OpenHandles) = 1

\* C3: Load on a loaded font and Unload on a font that is not loaded call
\* nothing in SDL_ttf, raise nothing and change no state.
C3_LoadUnloadIdempotent ==
    [][/\ op'.name = "Load" /\ fonts[op'.f].font # NULL
          => /\ <<fonts, texs, ttf>>' = <<fonts, texs, ttf>>
             /\ trace' = <<>>
             /\ exc' = "none"
       /\ op'.name = "Unload" /\ fonts[op'.f].font = NULL
          => /\ <<fonts, texs, ttf>>' = <<fonts, texs, ttf>>
             /\ trace' = <<>>
             /\ exc' = "none"]_vars

\* C3 witness: Load returned on a font that was loaded already.
C3_Witness ==
    /\ op.name = "Load"
    /\ exc = "none"
    /\ trace = <<>>
    /\ Loaded(op.f)

\* C4: CreateFontTexture (either variant) on a font that is not loaded raises
\* Exception, creates no texture and attaches no listener; every Render on a
\* font that is not loaded, also one run by SetText or by a change
\* notification, raises Exception.
C4_NotLoadedThrows ==
    [][/\ op'.name \in {"CreateFontTexture", "CreateFontTextureFixed"}
          /\ fonts[op'.f].font = NULL
          => exc' = "Exception" /\ texs' = texs /\ fonts' = fonts
       /\ \A t \in TexIds :
            /\ op'.name \in {"SetText", "SetStyle", "SetColor"}
            /\ texs[t].state = "live"
            /\ fonts[texs[t].font].font = NULL
            /\ \E i \in 1 .. Len(trace') : trace'[i] = <<"Render", t>>
            => exc' = "Exception"]_vars

\* C4 witness: a style change after Unload reached a texture, whose render
\* raised.
C4_Witness ==
    /\ op.name = "SetStyle"
    /\ exc = "Exception"
    /\ fonts[op.f].font = NULL
    /\ \E t \in TexIds : trace = <<<<"FontChanged", op.f>>, <<"Render", t>>>>

\* The channels of pixel i of a 32-bit buffer, read under the host's masks.
PixelAt(data, i) == GetRGBA(SubSeq(data, 4 * i - 3, 4 * i), bigEndian)

\* C5: a Render of non-empty text that throws leaves the texture's data,
\* width, height and depth as they were before the call.
C5_FailedRenderKeepsBuffer ==
    [][\A t \in TexIds :
          /\ texs[t].state = "live"
          /\ FailedRender(trace', exc', t)
          /\ texs'[t].text # <<>>
          => /\ texs'[t].data = texs[t].data
             /\ texs'[t].width = texs[t].width
             /\ texs'[t].height = texs[t].height
             /\ texs'[t].depth = texs[t].depth]_vars

\* C6: every texture that CreateFontTexture returned has depth 32 and a
\* buffer of depth/8 x width x height bytes.
C6_BufferLength ==
    \A t \in TexIds :
        texs[t].state = "live"
            => /\ texs[t].depth = 32
               /\ Len(texs[t].data) = (texs[t].depth \div 8) * texs[t].width * texs[t].height

\* C7: after a render of empty text on an auto-sized texture (the font being
\* loaded) the texture is 1 x 1, 32 bits deep and its four bytes are zero; so
\* is the texture CreateFontTexture() has just returned.
C7_EmptyAutoSized ==
    /\ \A t \in TexIds :
          /\ texs[t].state = "live"
          /\ ~texs[t].fixed_size
          /\ texs[t].text = <<>>
          /\ Rendered(t)
          => /\ texs[t].width = 1
             /\ texs[t].height = 1
             /\ texs[t].depth = 32
             /\ texs[t].data = <<0, 0, 0, 0>>
    /\ op.name = "CreateFontTexture" /\ exc = "none"
          => /\ texs[op.t].state = "live"
             /\ Rendered(op.t)
             /\ ~texs[op.t].fixed_size
             /\ texs[op.t].text = <<>>

\* C7 witness: SetText("") on an auto-sized texture of a loaded font.
C7_Witness ==
    /\ op.name = "SetText"
    /\ exc = "none"
    /\ ~texs[op.t].fixed_size
    /\ texs[op.t].text = <<>>
    /\ Rendered(op.t)
    /\ texs[op.t].data = <<0, 0, 0, 0>>

\* C8: after a render of empty text on a fixed-size texture (the font being
\* loaded) every pixel is the texture's background colour and width, height
\* and depth are those of its creation.
C8_EmptyFixedSize ==
    \A t \in TexIds :
        /\ texs[t].state = "live"
        /\ texs[t].fixed_size
        /\ texs[t].text = <<>>
        /\ Rendered(t)
        => /\ <<texs[t].width, texs[t].height>> \in FixedDims
           /\ texs[t].depth = 32
           /\ Len(texs[t].data) = 4 * texs[t].width * texs[t].height
           /\ \A i \in 1 .. texs[t].width * texs[t].height :
                 PixelAt(texs[t].data, i) = BackgroundWord(texs[t].bgcolr)

\* C9: a SetSize, SetStyle or SetColor that returns on a loaded font has
\* rendered each attached texture once, in the order of subscription.
C9_OneRenderPerTexture ==
    /\ op.name \in {"SetSize", "SetStyle", "SetColor"}
    /\ exc = "none"
    /\ Loaded(op.f)
    => RenderEvents(trace)
         = [i \in 1 .. Len(fonts[op.f].listeners) |-> <<"Render", fonts[op.f].listeners[i]>>]

\* C10: the listeners of a font's change event are, each once, the live
\* textures created from it; a destroyed font has none, every live texture's
\* font is alive, and no render is run for a texture that is not alive.
C10_ListenersAreLiveTextures ==
    /\ \A f \in FontIds :
          /\ {fonts[f].listeners[i] : i \in 1 .. Len(fonts[f].listeners)} = LiveOf(f, texs)
          /\ Len(fonts[f].listeners) = Cardinality(LiveOf(f, texs))
          /\ fonts[f].state = "destroyed" => LiveOf(f, texs) = {}
    /\ \A t \in TexIds :
          texs[t].state = "live" => texs[t].font \in FontIds
    /\ \A i \in 1 .. Len(trace) :
          trace[i][1] = "Render" => texs[trace[i][2]].state = "live"

\* C10 witness: one of two textures of a font was destroyed; the other one is
\* its only listener.
C10_Witness ==
    /\ op.name = "ReleaseTexture"
    /\ fonts[op.f].state = "live"
    /\ Len(fonts[op.f].listeners) = 1
    /\ fonts[op.f].listeners[1] # op.t
    /\ texs[op.t].state = "destroyed"

\* What Render draws for texture t from the state as it is: its text under the
\* font's point size, style and colour and its own background.
CurrentRendering(t) ==
    RenderChecked(t, texs[t], fonts[texs[t].font], fonts[texs[t].font].ptsize,
                  "ok", bigEndian).tex

\* Texture t shows its current rendering.
UpToDate(t) ==
    /\ texs[t].data = CurrentRendering(t).data
    /\ texs[t].width = CurrentRendering(t).width
    /\ texs[t].height = CurrentRendering(t).height

\* Every texture attached to a loaded font shows its current rendering.
AllUpToDate ==
    \A t \in TexIds :
        texs[t].state = "live" /\ fonts[texs[t].font].font # NULL => UpToDate(t)

\* C11: a SetText, SetSize, SetStyle, SetColor or SetBackground that returns
\* on a loaded font, called when every attached texture shows its current
\* rendering, leaves every attached texture showing its current rendering:
\* none is left with the output of superseded settings.
C11_RerenderedOnChange ==
    [][/\ AllUpToDate
       /\ op'.name \in {"SetText", "SetSize", "SetStyle", "SetColor", "SetBackground"}
       /\ exc' = "none"
       => AllUpToDate']_vars

\* C12: the texture CreateFontTexture(width, height) returns has that width
\* and height and a buffer of 4 x width x height bytes, and no step changes
\* the width, the height or the size of the buffer of a fixed-size texture
\* that stays alive.
C12_FixedSizeKept ==
    [][/\ op'.name = "CreateFontTextureFixed" /\ exc' = "none"
          => /\ texs[op'.t].state = "none"
             /\ texs'[op'.t].state = "live"
             /\ texs'[op'.t].fixed_size
             /\ <<texs'[op'.t].width, texs'[op'.t].height>> \in scope.dims
             /\ Len(texs'[op'.t].data) = 4 * texs'[op'.t].width * texs'[op'.t].height
       /\ \A t \in TexIds :
            /\ texs[t].state = "live"
            /\ texs[t].fixed_size
            /\ texs'[t].state = "live"
            => /\ texs'[t].fixed_size
               /\ texs'[t].width = texs[t].width
               /\ texs'[t].height = texs[t].height
               /\ Len(texs'[t].data) = Len(texs[t].data)]_vars

\* C12 witness: text wider or higher than a fixed-size texture was rendered
\* into it (the font is open at 24 points, the surface is 2 x 2).
C12_Witness ==
    /\ op.name = "SetText"
    /\ exc = "none"
    /\ texs[op.t].fixed_size
    /\ texs[op.t].text # <<>>
    /\ Rendered(op.t)
    /\ fonts[op.f].ptsize = 24
    /\ <<texs[op.t].width, texs[op.t].height>> = <<2, 1>>

\* C13: every channel of the colour a font stores lies in [0, 1].
C13_ColorInUnitInterval ==
    \A f \in FontIds :
        fonts[f].state = "live"
            => \A i \in 1 .. 3 : 0 <= fonts[f].colr[i] /\ fonts[f].colr[i] <= 2

\* C13 as the code has it: SetFontColor of revision B stores the smaller of
\* 1.0 and each channel given, so no stored channel is above 1.0 and a
\* channel below 0 is stored as given; SetColor of revision A stores the
\* colour as given.
C13_ColorClampedFromAbove ==
    /\ revision = "B"
          => \A f \in FontIds : \A i \in 1 .. 3 : fonts[f].colr[i] <= 2
    /\ op.name = "SetColor"
          => \E c \in scope.colors :
                fonts[op.f].colr = IF revision = "B"
                                   THEN <<Min(2, c[1]), Min(2, c[2]), Min(2, c[3])>>
                                   ELSE c

\* C13 witness: SetFontColor((2.0, -1.0, 0.5)) of revision B stored
\* (1.0, -1.0, 0.5).
C13_Witness ==
    /\ op.name = "SetColor"
    /\ revision = "B"
    /\ fonts[op.f].colr = <<2, -2, 1>>

\* The four bytes of pixel i of a buffer, in memory order.
BytesAt(data, i) == SubSeq(data, 4 * i - 3, 4 * i)

\* The bytes in memory of a pixel with the channels r, g, b, a under the masks
\* of the host: red is the lowest byte of the 32-bit value on a little-endian
\* host, where the lowest byte comes first in memory, and the highest byte on
\* a big-endian host, where the highest byte comes first.
LayoutOf(r, g, b, a) ==
    LET value == IF bigEndian THEN <<r, g, b, a>> ELSE <<a, b, g, r>>
    IN  IF bigEndian THEN value ELSE <<value[4], value[3], value[2], value[1]>>

\* C14: in a 32-bit buffer that Render has just written, every pixel of
\* rasterized text of an auto-sized texture holds the font's packed colour and
\* the glyph's alpha, and every pixel of the background of a fixed-size
\* texture (all of them for empty text, those the text does not reach
\* otherwise) holds the background colour, in the layout of the host's masks.
C14_ChannelLayout ==
    \A t \in TexIds :
        /\ texs[t].state = "live"
        /\ Rendered(t)
        /\ texs[t].depth = 32
        => LET fnt == fonts[texs[t].font]
               bg == BackgroundWord(texs[t].bgcolr)
               sc == fnt.ptsize \div 12
               covered(i) == /\ texs[t].text # <<>>
                             /\ ((i - 1) % texs[t].width) < Len(texs[t].text) * sc
                             /\ ((i - 1) \div texs[t].width) < sc
           IN  \A i \in 1 .. texs[t].width * texs[t].height :
                  IF texs[t].fixed_size
                  THEN covered(i)
                       \/ BytesAt(texs[t].data, i) = LayoutOf(bg[1], bg[2], bg[3], bg[4])
                  ELSE texs[t].text # <<>>
                       => /\ SubSeq(BytesAt(texs[t].data, i), 1, 3)
                               = SubSeq(LayoutOf(fnt.sdlcolr[1], fnt.sdlcolr[2],
                                                 fnt.sdlcolr[3], 0), 1, 3)
                          /\ BytesAt(texs[t].data, i)[4] \in {64, 128, 255}

\* C15: the font of a live texture is alive, with the native font it had; a
\* font the plugin created is destroyed exactly when its owner has released
\* it and none of its textures is alive, and a destroyed font has closed its
\* native font.
C15_SharedOwnership ==
    /\ \A t \in TexIds :
          texs[t].state = "live" => fonts[texs[t].font].state = "live"
    /\ \A f \in scope.fonts :
          /\ fonts[f].state \in {"live", "destroyed"}
          /\ fonts[f].state = "destroyed"
                <=> ~fonts[f].held /\ LiveOf(f, texs) = {}
          /\ fonts[f].state = "destroyed"
                => fonts[f].font = NULL /\ fonts[f].listeners = <<>>
    /\ op.name \in {"ReleaseFont", "ReleaseTexture"} /\ fonts[op.f].state = "live"
          => ~\E i \in 1 .. Len(trace) : trace[i][1] = "TTF_CloseFont"

\* C15 witness: the owner had released a loaded font that still had a
\* texture; the release of that texture destroyed the font, which closed its
\* native font.
C15_Witness ==
    /\ op.name = "ReleaseTexture"
    /\ fonts[op.f].state = "destroyed"
    /\ Len(trace) = 2
    /\ trace[1] = <<"Detach", op.t>>
    /\ trace[2][1] = "TTF_CloseFont"
    /\ OpenHandles = {}

\* The number of renders of texture t in a trace.
RendersOf(tr, t) == Len(SelectSeq(tr, LAMBDA e : e = <<"Render", t>>))

\* C16: within one operation the font's change event is fired at most once
\* and never from a render; no texture is rendered twice, so there are at
\* most as many renders as textures attached; SetText renders its texture
\* once and leaves every font as it was, and the renders of a SetStyle or
\* SetColor leave of the font all but the property set as it was.
C16_NoReentry ==
    [][/\ \A i \in 2 .. Len(trace') : trace'[i][1] # "FontChanged"
       /\ \A t \in TexIds : RendersOf(trace', t) <= 1
       /\ op'.name \in {"SetStyle", "SetColor"}
          => /\ Len(RenderEvents(trace')) <= Len(fonts[op'.f].listeners)
             /\ \A i \in 1 .. Len(trace') :
                   trace'[i][1] = "Render"
                      => \E k \in 1 .. Len(fonts[op'.f].listeners) :
                            fonts[op'.f].listeners[k] = trace'[i][2]
             /\ \A g \in FontIds :
                   /\ g # op'.f => fonts'[g] = fonts[g]
                   /\ fonts'[g].font = fonts[g].font
                   /\ fonts'[g].ptsize = fonts[g].ptsize
                   /\ fonts'[g].filename = fonts[g].filename
                   /\ fonts'[g].listeners = fonts[g].listeners
                   /\ fonts'[g].state = fonts[g].state
                   /\ fonts'[g].held = fonts[g].held
                   /\ op'.name = "SetStyle"
                         => /\ fonts'[g].colr = fonts[g].colr
                            /\ fonts'[g].sdlcolr = fonts[g].sdlcolr
                   /\ op'.name = "SetColor" => fonts'[g].style = fonts[g].style
             /\ ttf' = ttf
       /\ op'.name = "SetText"
          => /\ fonts' = fonts
             /\ ttf' = ttf
             /\ RendersOf(trace', op'.t) = 1
             /\ Len(RenderEvents(trace')) = 1
             /\ \A i \in 1 .. Len(trace') : trace'[i][1] # "FontChanged"]_vars

\* C16 witness: a style change on a font with two textures rendered each of
\* them once and returned.
C16_Witness ==
    /\ op.name = "SetStyle"
    /\ exc = "none"
    /\ Len(fonts[op.f].listeners) = 2
    /\ trace = <<<<"FontChanged", op.f>>,
                 <<"Render", fonts[op.f].listeners[1]>>,
                 <<"TextureChanged", fonts[op.f].listeners[1]>>,
                 <<"Render", fonts[op.f].listeners[2]>>,
                 <<"TextureChanged", fonts[op.f].listeners[2]>>>>

\* The native font of the font fnt is open in SDL_ttf, at the point size fnt has.
OpenAtCurrentSize(fnt, tf) ==
    /\ fnt.font # NULL
    /\ tf.open[fnt.font]
    /\ tf.ptsize[fnt.font] = fnt.ptsize

\* C17: after every step a font that has a native font has it open at its
\* current point size.  SetSize on a loaded font closes the native font and
\* opens one at the new size, or, if that fails, raises and leaves the font
\* not loaded; SetSize on a font that is not loaded calls nothing in SDL_ttf
\* and raises nothing; in each case the font has the size a caller can give.
C17_OpenedAtCurrentSize ==
    [][/\ \A f \in FontIds : fonts'[f].font # NULL => OpenAtCurrentSize(fonts'[f], ttf')
       /\ op'.name = "SetSize"
          => LET f == op'.f
                 old == fonts[f].font
             IN  /\ fonts'[f].ptsize \in scope.ptsizes
                 /\ fonts' = [fonts EXCEPT ![f].ptsize = fonts'[f].ptsize,
                                           ![f].font = fonts'[f].font]
                 /\ old = NULL
                       => /\ fonts'[f].font = NULL
                          /\ ttf' = ttf
                          /\ exc' = "none"
                          /\ trace' = <<>>
                 /\ old # NULL /\ OpenSucceeds(fonts[f].filename, fonts'[f].ptsize)
                       => /\ exc' = "none"
                          /\ trace' = <<<<"TTF_CloseFont", old>>,
                                        <<"TTF_OpenFont", fonts'[f].font>>>>
                          /\ OpenAtCurrentSize(fonts'[f], ttf')
                 /\ old # NULL /\ ~OpenSucceeds(fonts[f].filename, fonts'[f].ptsize)
                       => /\ exc' = "ResourceException"
                          /\ trace' = <<<<"TTF_CloseFont", old>>>>
                          /\ fonts'[f].font = NULL
                          /\ ~ttf'.open[old]]_vars

\* C17 witness: SetSize(24) on a font loaded at 12 points reopened it at 24.
C17_Witness ==
    /\ op.name = "SetSize"
    /\ exc = "none"
    /\ fonts[op.f].ptsize = 24
    /\ OpenAtCurrentSize(fonts[op.f], ttf)
    /\ Len(trace) = 2

\* C18: each channel of the packed colour of a font is round(255 x the
\* channel of its float colour) and lies in 0 .. 255; a new font has the
\* float colour (1.0, 1.0, 1.0) and the packed colour (255, 255, 255).
C18_PackedMirrorsFloat ==
    /\ \A f \in FontIds :
          fonts[f].state = "live"
             => \A i \in 1 .. 3 :
                   /\ fonts[f].sdlcolr[i] = RoundF255(fonts[f].colr[i])
                   /\ fonts[f].sdlcolr[i] \in 0 .. 255
    /\ op.name = "CreateResource"
          => \A f \in scope.fonts :
                fonts[f].colr = <<2, 2, 2>> /\ fonts[f].sdlcolr = <<255, 255, 255>>

\* C19: the pixel buffers allocated and not freed are never more than the
\* live textures (each texture owns at most one, a render frees the buffer it
\* replaces, the destructor frees the texture's buffer once), and never fewer
\* than the live textures that have a buffer.
C19_OneBufferPerTexture ==
    /\ heap <= Cardinality({t \in TexIds : texs[t].state = "live"})
    /\ heap >= Cardinality({t \in TexIds : texs[t].state = "live" /\ texs[t].data # <<>>})

====
